---- MODULE Spec2Model ----
(***************************************************************************)
(* Model of src/main.py (STWSAVER backend): the job tracker                *)
(* conversion_statuses, the task registry download_tasks, the download    *)
(* directories, the YouTube downloader, the Instagram fallback chain, the  *)
(* retention sweep and the HTTP handlers.                                  *)
(*                                                                         *)
(* Scheduling: the handlers and the download coroutines run on one asyncio *)
(* event loop, so the code between two awaits runs without interleaving.   *)
(* A coroutine's position pc[j] is either an await point (AwaitPcs) or a   *)
(* position inside a synchronous segment; while some job is inside a       *)
(* segment nothing else runs (LoopFree).  yt-dlp runs in a worker thread   *)
(* (asyncio.to_thread) whose progress hooks write the tracker.             *)
(***************************************************************************)
EXTENDS Integers, Sequences, FiniteSets, TLC

\* ------------------------------------------------------------- bounds
MaxJobs == 1
MaxTicks == 2
MaxBytes == 3
MaxRounds == 1
TotalBytes == 2
MaxScratch == 2

\* -------------------------------------------------- program constants
MAX_FILE_AGE == 300
CLEANUP_INTERVAL == 300

JobIds == 1..MaxJobs

\* the files that may lie in TEMP_DIR
ScratchIds == 1..MaxScratch

VARIABLES
  now,                 \* wall clock, seconds since startup
  ticks,               \* number of clock advances so far (bounds the run)
  wake,                \* time at which periodic_cleanup's sleep ends
  YT_DLP_AVAILABLE,    \* import yt_dlp succeeded
  INSTAGRAPI_AVAILABLE,\* import instagrapi succeeded and Client() was built
  conversion_statuses, \* dict file_id -> ConversionStatus
  download_tasks,      \* dict file_id -> asyncio.Task (its key set)
  dirs,                \* DOWNLOADS_DIR/<file_id>: existence, ctime, files
  req,                 \* the DownloadRequest each task was created with
  pc,                  \* position of each download coroutine
  method,              \* InstagramDownloader.download_video: loop index
  last_error,          \* InstagramDownloader.download_video: last_error
  errlog,              \* the lines printed by the chain's except clause
  fname,               \* local variable filename of the running strategy
  title,               \* whether the local variable title is bound
  thread,              \* worker thread running ydl.download
  bytes,               \* bytes transferred so far in the current transfer
  total,               \* announced size of the current transfer
  round,               \* number of 'finished' hook calls of the thread
  result,              \* outcome of each task
  polled,              \* last answer of GET /api/progress/{file_id}
  resp,                \* last answer of POST /api/download, GET /download
                       \* or DELETE
  lifespan,            \* "up", or the position of shutdown_event
  temp,                \* the files of TEMP_DIR: existence, ctime, removable
  input,               \* argument of the pure function under study
  output,              \* its result
  health               \* the answer health_check is about to return

vars == <<now, ticks, wake, YT_DLP_AVAILABLE, INSTAGRAPI_AVAILABLE,
          conversion_statuses, download_tasks, dirs, req, pc, method,
          last_error, errlog, fname, title, thread, bytes, total, round,
          result, polled, resp, lifespan, temp, input, output, health>>

\* what the download coroutines, the worker thread and the request handlers
\* leave alone
rest == <<lifespan, temp, input, output, health>>

\* ---------------------------------------------------------- data model
\* Python None of an Optional field; a present value x is <<x>> or a tuple.
None == <<>>

\* class ConversionStatus (file_id is the key of the dict)
ConversionStatus(p, s, u, f, e, m) ==
  [progress |-> p, status |-> s, download_url |-> u, filename |-> f,
   estimated_time |-> e, message |-> m]

\* f"/download/{file_id}/{filename}"
DownloadUrl(j, f) == <<"/download/", j, f>>

\* a file name: stem and extension
FileName(s, e) == [stem |-> s, ext |-> e]

\* filename.endswith('.mp3')
EndsWithMp3(f) == f.ext = "mp3"

\* filename.rsplit('.', 1)[0] + '.mp3'  and  filename.replace('.mp4', '.mp3')
AudioName(f) == [f EXCEPT !.ext = "mp3"]

\* conversion_statuses[file_id] = value
Put(cs, j, v) == [k \in (DOMAIN cs) \cup {j} |-> IF k = j THEN v ELSE cs[k]]

\* faulty variant of Del: the entry stays
DelKeeping(cs, j) == cs

\* del conversion_statuses[file_id]
Del(cs, j) == [k \in (DOMAIN cs) \ {j} |-> cs[k]]

\* conversion_statuses[file_id].<fields> = ...   (caller checks the key)
SetProgress(cs, j, p) == [cs EXCEPT ![j].progress = p]
SetMessage(cs, j, m) == [cs EXCEPT ![j].message = m]

\* a job directory; served: the time os.utime last gave one of its files
NoDir == [exists |-> FALSE, ctime |-> 0, files |-> <<>>, served |-> None]

\* os.makedirs(output_dir, exist_ok=True)
MakeDirs(d, j, t) ==
  IF d[j].exists THEN d
  ELSE [d EXCEPT ![j] = [exists |-> TRUE, ctime |-> t, files |-> <<>>,
                         served |-> None]]

\* shutil.rmtree(dir_path, ignore_errors=True)
RmTree(d, j) == [d EXCEPT ![j] = NoDir]

\* a file is created in (or replaces one of) the directory; on POSIX the
\* directory's ctime moves to the time of the change, elsewhere it stays
\* the creation time: both are kept as possible outcomes.
RemoveFile(fs, f) == SelectSeq(fs, LAMBDA x : x # f)
AddFile(d, j, f, c) ==
  [d EXCEPT ![j].files = Append(RemoveFile(@, f), f), ![j].ctime = c]
CtimeAfterChange(d, j, t) == {d[j].ctime, t}

\* max(files, key=getctime): the most recently created file
MostRecent(fs) == fs[Len(fs)]

\* positions at which a coroutine is suspended (or not running)
AwaitPcs == {"none", "spawned", "yt_dl_wait", "yt_ff_wait", "ig1_get",
             "ig1_chunks", "ig1_ff_wait", "ig2_dl_wait", "ig3_oembed",
             "ig3_api", "ig3_video", "done", "rejected", "cancelled"}

\* the event loop runs and is between callbacks
LoopFree ==
  /\ lifespan # "down"
  /\ health = None
  /\ \A j \in JobIds : pc[j] \in AwaitPcs

\* a file of TEMP_DIR; removable: os.remove on it succeeds (the server owns
\* it and nothing holds it open)
NoFile == [exists |-> FALSE, ctime |-> 0, removable |-> TRUE]

\* TEMP_DIR after startup_event's initial cleanup_old_files (the server
\* itself writes nothing there): files that other programs left, the first
\* of which the server may not remove
TempAtStartup ==
  [s \in ScratchIds |-> [exists |-> TRUE, ctime |-> 0, removable |-> s # 1]]

NoReq == [platform |-> "none", format |-> "none", shortcode |-> FALSE]
NoResult == [outcome |-> "none", format |-> "none"]
NoPoll == [code |-> 0, body |-> <<>>]

\* --------------------------------------------------------- pure helpers
\* a URL is the sequence of its characters

\* needle occurs in hay at position i
OccursAt(hay, needle, i) ==
  /\ i + Len(needle) - 1 <= Len(hay)
  /\ \A k \in 1..Len(needle) : hay[i + k - 1] = needle[k]

\* Python's  needle in hay
Contains(hay, needle) == \E i \in 1..Len(hay) : OccursAt(hay, needle, i)

\* str.lower() on the characters the modelled URLs use
LowerChar(c) ==
  CASE c = "Y" -> "y" [] c = "I" -> "i" [] c = "X" -> "x" [] OTHER -> c
Lower(s) == [i \in 1..Len(s) |-> LowerChar(s[i])]

F_youtube_com == <<"y","o","u","t","u","b","e",".","c","o","m">>
F_youtu_be == <<"y","o","u","t","u",".","b","e">>
F_instagram_com == <<"i","n","s","t","a","g","r","a","m",".","c","o","m">>
F_tiktok_com == <<"t","i","k","t","o","k",".","c","o","m">>
F_twitter_com == <<"t","w","i","t","t","e","r",".","c","o","m">>
F_x_com == <<"x",".","c","o","m">>
F_facebook_com == <<"f","a","c","e","b","o","o","k",".","c","o","m">>
F_fb_watch == <<"f","b",".","w","a","t","c","h">>

\* detect_platform; "ValueError" stands for the raise at its end
detect_platform(url) ==
  LET url_lower == Lower(url) IN
  IF Contains(url_lower, F_youtube_com) \/ Contains(url_lower, F_youtu_be)
    THEN "youtube"
  ELSE IF Contains(url_lower, F_instagram_com) THEN "instagram"
  ELSE IF Contains(url_lower, F_tiktok_com) THEN "tiktok"
  ELSE IF Contains(url_lower, F_twitter_com) \/ Contains(url_lower, F_x_com)
    THEN "twitter"
  ELSE IF Contains(url_lower, F_facebook_com) \/ Contains(url_lower, F_fb_watch)
    THEN "facebook"
  ELSE "ValueError"

\* [A-Za-z0-9_-] restricted to the characters the modelled URLs use
CodeChars == {"a", "b", "c", "A", "0", "_", "-"}

\* extract_instagram_shortcode(url) is not None: one of the three patterns
\* matches the URL as given (no lower-casing), followed by a code character
ShortcodePatterns ==
  { F_instagram_com \o <<"/","p","/">>,
    F_instagram_com \o <<"/","r","e","e","l","/">>,
    F_instagram_com \o <<"/","t","v","/">> }
HasShortcode(url) ==
  \E pat \in ShortcodePatterns : \E i \in 1..Len(url) :
     /\ OccursAt(url, pat, i)
     /\ i + Len(pat) <= Len(url)
     /\ url[i + Len(pat)] \in CodeChars

\* the request URLs the model draws from
U_youtube == F_youtu_be \o <<"/","a">>
U_instagram_post == F_instagram_com \o <<"/","p","/","a">>
U_instagram_upper == <<"I">> \o Tail(F_instagram_com) \o <<"/","p","/","a">>
U_tiktok == F_tiktok_com \o <<"/","a">>
U_other == <<"e","x","a","m","p","l","e",".","o","r","g","/","a">>
Urls == {U_youtube, U_instagram_post, U_instagram_upper, U_tiktok, U_other}
Formats == {"mp4", "mp3"}

\* ------------------------------------------------------------- startup
\* module level (lines 24-45, 109-110) and startup_event: empty tracker and
\* registry, periodic_cleanup started and asleep for CLEANUP_INTERVAL
Startup ==
  /\ now = 0
  /\ ticks = 0
  /\ wake = CLEANUP_INTERVAL
  /\ YT_DLP_AVAILABLE \in BOOLEAN
  /\ INSTAGRAPI_AVAILABLE \in BOOLEAN
  /\ conversion_statuses = <<>>
  /\ download_tasks = {}
  /\ dirs = [j \in JobIds |-> NoDir]
  /\ req = [j \in JobIds |-> NoReq]
  /\ pc = [j \in JobIds |-> "none"]
  /\ method = [j \in JobIds |-> 0]
  /\ last_error = [j \in JobIds |-> None]
  /\ errlog = [j \in JobIds |-> <<>>]
  /\ fname = [j \in JobIds |-> None]
  /\ title = [j \in JobIds |-> FALSE]
  /\ thread = [j \in JobIds |-> "idle"]
  /\ bytes = [j \in JobIds |-> 0]
  /\ total = [j \in JobIds |-> 0]
  /\ round = [j \in JobIds |-> 0]
  /\ result = [j \in JobIds |-> NoResult]
  /\ polled = [j \in JobIds |-> NoPoll]
  /\ resp = [op |-> "none", id |-> 0, code |-> 0]
  /\ lifespan = "up"
  /\ temp = TempAtStartup
  /\ health = None

Init ==
  /\ Startup
  /\ input = None
  /\ output = None

\* time passes, MAX_FILE_AGE seconds at a time (only observed between
\* callbacks)
Tick ==
  /\ LoopFree
  /\ ticks < MaxTicks
  /\ now' = now + MAX_FILE_AGE
  /\ ticks' = ticks + 1
  /\ UNCHANGED <<wake, YT_DLP_AVAILABLE, INSTAGRAPI_AVAILABLE, rest,
                 conversion_statuses, download_tasks, dirs, req, pc, method,
                 last_error, errlog, fname, title, thread, bytes, total, round,
                 result, polled, resp>>

\* -------------------------------------------------- POST /api/download
\* generate_file_id(): a fresh id (ids are handed out in increasing order)
FreshId(j) == pc[j] = "none" /\ \A k \in JobIds : k < j => pc[k] # "none"

\* faulty variant of Pending: the record a started download would have
PendingStarted ==
  ConversionStatus(5, "initializing", None, None, 120,
                   <<"Preparing download...">>)

\* the record of lines 944-952
Pending ==
  ConversionStatus(0, "pending", None, None, 120, <<"Preparing download...">>)

\* start_download
StartDownload(j) ==
  /\ LoopFree
  /\ lifespan = "up"
  /\ FreshId(j)
  /\ \E url \in Urls, fmt \in Formats :
       LET platform == detect_platform(url) IN
       IF platform = "ValueError"
       THEN \* detect_platform raises before an id is generated: 400
            /\ resp' = [op |-> "start", id |-> 0, code |-> 400]
            /\ UNCHANGED <<conversion_statuses, download_tasks, req, pc>>
       ELSE IF platform \notin {"youtube", "instagram"} /\ ~YT_DLP_AVAILABLE
       THEN \* HTTPException(400) raised at line 987 is caught at line 1007
            /\ conversion_statuses' = Put(conversion_statuses, j, Pending)
            /\ pc' = [pc EXCEPT ![j] = "rejected"]
            /\ resp' = [op |-> "start", id |-> 0, code |-> 500]
            /\ UNCHANGED <<download_tasks, req>>
       ELSE /\ conversion_statuses' = Put(conversion_statuses, j, Pending)
            /\ req' = [req EXCEPT ![j] =
                 [platform |-> IF platform = "instagram" THEN "instagram"
                               ELSE "youtube",
                  format |-> fmt, shortcode |-> HasShortcode(url)]]
            /\ download_tasks' = download_tasks \cup {j}
            /\ pc' = [pc EXCEPT ![j] = "spawned"]
            /\ resp' = [op |-> "start", id |-> j, code |-> 200]
  /\ UNCHANGED <<now, ticks, wake, YT_DLP_AVAILABLE, INSTAGRAPI_AVAILABLE, rest,
                 dirs, method, last_error, errlog, fname, title, thread, bytes,
                 total, round, result, polled>>

\* ----------------------------------------------------- worker thread
Min(a, b) == IF a < b THEN a ELSE b

\* int((d['downloaded_bytes'] / d['total_bytes']) * 100)
Percent(downloaded, tot) == (downloaded * 100) \div tot

\* faulty variant of HookProgress: the value is not capped
HookProgressUncapped(downloaded, tot) ==
  20 + (Percent(downloaded, tot) * 6) \div 10

\* min(80, 20 + int(progress * 0.6))
HookProgress(downloaded, tot) ==
  Min(80, 20 + (Percent(downloaded, tot) * 6) \div 10)

\* the sizes a hook call may announce: 0 stands for a missing or zero entry
Totals == {0, TotalBytes}

\* YouTubeDownloader.progress_hook, d['status'] == 'downloading'
YtHookDownloading(cs, j, downloaded, total_bytes, total_bytes_estimate) ==
  IF j \notin DOMAIN cs THEN cs
  ELSE IF total_bytes > 0
    THEN SetProgress(cs, j, HookProgress(downloaded, total_bytes))
  ELSE IF total_bytes_estimate > 0
    THEN SetProgress(cs, j, HookProgress(downloaded, total_bytes_estimate))
  ELSE cs

\* YouTubeDownloader.progress_hook, d['status'] == 'finished'
YtHookFinished(cs, j) ==
  IF j \notin DOMAIN cs THEN cs
  ELSE [cs EXCEPT ![j].progress = 80, ![j].status = "finalizing",
                  ![j].message = <<"Processing downloaded file...">>]

\* InstagramDownloader._ytdlp_progress_hook
IgHookDownloading(cs, j, downloaded, total_bytes) ==
  IF j \notin DOMAIN cs THEN cs
  ELSE IF total_bytes > 0
    THEN SetProgress(cs, j, HookProgress(downloaded, total_bytes))
  ELSE cs

\* yt-dlp calls the hook with status 'downloading': the byte counter of one
\* transfer does not go back
HookDownloading(j) ==
  /\ LoopFree
  /\ thread[j] = "running"
  /\ \E d \in bytes[j]..MaxBytes, tb \in Totals, tbe \in Totals :
       /\ bytes' = [bytes EXCEPT ![j] = d]
       /\ conversion_statuses' =
            IF req[j].platform = "youtube"
            THEN YtHookDownloading(conversion_statuses, j, d, tb, tbe)
            ELSE IgHookDownloading(conversion_statuses, j, d, tb)
  /\ UNCHANGED <<now, ticks, wake, YT_DLP_AVAILABLE, INSTAGRAPI_AVAILABLE, rest,
                 download_tasks, dirs, req, pc, method, last_error, errlog,
                 fname, title, thread, total, round, result, polled, resp>>

\* yt-dlp calls the hook with status 'finished' at the end of one transfer
\* (bestvideo+bestaudio makes two transfers); the next transfer starts at 0
HookFinished(j) ==
  /\ LoopFree
  /\ thread[j] = "running"
  /\ round[j] < MaxRounds
  /\ round' = [round EXCEPT ![j] = @ + 1]
  /\ bytes' = [bytes EXCEPT ![j] = 0]
  /\ conversion_statuses' =
       IF req[j].platform = "youtube"
       THEN YtHookFinished(conversion_statuses, j)
       ELSE conversion_statuses
  /\ UNCHANGED <<now, ticks, wake, YT_DLP_AVAILABLE, INSTAGRAPI_AVAILABLE, rest,
                 download_tasks, dirs, req, pc, method, last_error, errlog,
                 fname, title, thread, total, result, polled, resp>>

\* the files ydl.download may leave behind for a request
Media(fmt) ==
  IF fmt = "mp3" THEN {FileName("media", "mp3"), FileName("media", "webm")}
  ELSE {FileName("media", "mp4")}

\* ydl.download returns (with or without a file written) or raises
ThreadEnd(j) ==
  /\ LoopFree
  /\ thread[j] = "running"
  /\ \/ /\ thread' = [thread EXCEPT ![j] = "error"]
        /\ UNCHANGED dirs
     \/ /\ thread' = [thread EXCEPT ![j] = "ok"]
        /\ UNCHANGED dirs
     \/ /\ thread' = [thread EXCEPT ![j] = "ok"]
        /\ dirs[j].exists
        /\ \E f \in Media(req[j].format), c \in CtimeAfterChange(dirs, j, now) :
             dirs' = AddFile(dirs, j, f, c)
  /\ bytes' = [bytes EXCEPT ![j] = 0]
  /\ round' = [round EXCEPT ![j] = 0]
  /\ UNCHANGED <<now, ticks, wake, YT_DLP_AVAILABLE, INSTAGRAPI_AVAILABLE, rest,
                 conversion_statuses, download_tasks, req, pc, method,
                 last_error, errlog, fname, title, total, result, polled,
                 resp>>

\* ------------------------------------------------- YouTubeDownloader
\* faulty variant of Completed: the URL is left for a later write
CompletedWithoutUrl(j, f, m) ==
  ConversionStatus(100, "completed", None, <<f>>, 0, m)

\* lines 393-401, 701-709, 772-780, 857-865: the record of a finished download
Completed(j, f, m) ==
  ConversionStatus(100, "completed", DownloadUrl(j, f), <<f>>, 0, m)

\* except Exception as e (lines 413-423): the record is replaced, the task
\* ends with HTTPException
YtFailed(e) ==
  ConversionStatus(0, "failed", None, None, 0, <<"Download failed: ">> \o e)

YtExcept(j, e) ==
  /\ conversion_statuses' = Put(conversion_statuses, j, YtFailed(e))
  /\ pc' = [pc EXCEPT ![j] = "done"]
  /\ result' = [result EXCEPT ![j] =
       [outcome |-> "HTTPException", format |-> "none"]]

\* lines 391-411: the record is replaced, the task returns its dict
YtComplete(j, f) ==
  /\ conversion_statuses' =
       Put(conversion_statuses, j,
           Completed(j, f, <<"Download completed successfully!">>))
  /\ pc' = [pc EXCEPT ![j] = "done"]
  /\ result' = [result EXCEPT ![j] =
       [outcome |-> "return", format |-> req[j].format]]

\* download_video, lines 285-300
YtStart(j) ==
  /\ LoopFree
  /\ pc[j] = "spawned"
  /\ req[j].platform = "youtube"
  /\ IF ~YT_DLP_AVAILABLE
     THEN /\ pc' = [pc EXCEPT ![j] = "done"]
          /\ result' = [result EXCEPT ![j] =
               [outcome |-> "HTTPException", format |-> "none"]]
          /\ UNCHANGED <<conversion_statuses, dirs>>
     ELSE /\ dirs' = MakeDirs(dirs, j, now)
          /\ conversion_statuses' = Put(conversion_statuses, j,
               ConversionStatus(5, "initializing", None, None, 120,
                                <<"Starting YouTube download...">>))
          /\ pc' = [pc EXCEPT ![j] = "yt_init"]
          /\ UNCHANGED result
  /\ UNCHANGED <<now, ticks, wake, YT_DLP_AVAILABLE, INSTAGRAPI_AVAILABLE, rest,
                 download_tasks, req, method, last_error, errlog, fname, title,
                 thread, bytes, total, round, polled, resp>>

\* download_video, lines 337-339
YtFetchingInfo(j) ==
  /\ pc[j] = "yt_init"
  /\ conversion_statuses' =
       [conversion_statuses EXCEPT ![j].progress = 10,
          ![j].status = "fetching_info",
          ![j].message = <<"Fetching video information...">>]
  /\ pc' = [pc EXCEPT ![j] = "yt_info"]
  /\ UNCHANGED <<now, ticks, wake, YT_DLP_AVAILABLE, INSTAGRAPI_AVAILABLE, rest,
                 download_tasks, dirs, req, method, last_error, errlog,
                 fname, title, thread, bytes, total, round, result, polled, resp>>

\* download_video, lines 341-350: extract_info returns or raises; then the
\* download is handed to a worker thread and awaited
YtExtractInfo(j) ==
  /\ pc[j] = "yt_info"
  /\ \/ /\ YtExcept(j, <<"extract_info failed">>)
        /\ UNCHANGED <<thread, bytes, round>>
     \/ /\ conversion_statuses' =
             [conversion_statuses EXCEPT ![j].progress = 20,
                ![j].status = "downloading",
                ![j].message = <<"Downloading video...">>]
        /\ pc' = [pc EXCEPT ![j] = "yt_dl_wait"]
        /\ thread' = [thread EXCEPT ![j] = "running"]
        /\ bytes' = [bytes EXCEPT ![j] = 0]
        /\ round' = [round EXCEPT ![j] = 0]
        /\ UNCHANGED result
  /\ UNCHANGED <<now, ticks, wake, YT_DLP_AVAILABLE, INSTAGRAPI_AVAILABLE, rest,
                 download_tasks, dirs, req, method, last_error, errlog,
                 fname, title, total, polled, resp>>

\* download_video, lines 352-372 and 391-411: the await of the thread ends
YtAfterDownload(j) ==
  /\ LoopFree
  /\ pc[j] = "yt_dl_wait"
  /\ thread[j] \in {"ok", "error"}
  /\ thread' = [thread EXCEPT ![j] = "idle"]
  /\ IF thread[j] = "error"
       THEN YtExcept(j, <<"yt-dlp download error">>) /\ UNCHANGED fname
     ELSE IF ~dirs[j].exists
       THEN YtExcept(j, <<"FileNotFoundError">>) /\ UNCHANGED fname
     ELSE IF dirs[j].files = <<>>
       THEN YtExcept(j, <<"No file was downloaded">>) /\ UNCHANGED fname
     ELSE LET filename == MostRecent(dirs[j].files) IN
       IF req[j].format = "mp3" /\ ~EndsWithMp3(filename)
       THEN IF j \notin DOMAIN conversion_statuses
            THEN YtExcept(j, <<"KeyError">>) /\ UNCHANGED fname
            ELSE /\ conversion_statuses' =
                      [conversion_statuses EXCEPT ![j].progress = 80,
                         ![j].status = "converting",
                         ![j].message = <<"Converting to MP3...">>]
                 /\ fname' = [fname EXCEPT ![j] = <<filename>>]
                 /\ pc' = [pc EXCEPT ![j] = "yt_ff_wait"]
                 /\ UNCHANGED result
       ELSE YtComplete(j, filename) /\ UNCHANGED fname
  /\ UNCHANGED <<now, ticks, wake, YT_DLP_AVAILABLE, INSTAGRAPI_AVAILABLE, rest,
                 download_tasks, dirs, req, method, last_error, errlog,
                 title, bytes, total, round, polled, resp>>

\* download_video, lines 374-411: ffmpeg wrote the audio file, or ran without
\* writing it, or could not be run (the except at line 387 keeps the file)
YtAfterFfmpeg(j) ==
  /\ LoopFree
  /\ pc[j] = "yt_ff_wait"
  /\ LET filename == fname[j][1] IN
     \/ /\ dirs[j].exists
        /\ \E c \in CtimeAfterChange(dirs, j, now) :
             dirs' = [AddFile(dirs, j, AudioName(filename), c) EXCEPT
                        ![j].files = RemoveFile(@, filename)]
        /\ YtComplete(j, AudioName(filename))
     \/ /\ UNCHANGED dirs
        /\ YtComplete(j, filename)
  /\ fname' = [fname EXCEPT ![j] = None]
  /\ UNCHANGED <<now, ticks, wake, YT_DLP_AVAILABLE, INSTAGRAPI_AVAILABLE, rest,
                 download_tasks, req, method, last_error, errlog, title,
                 thread, bytes, total, round, polled, resp>>

\* ----------------------------------------------- InstagramDownloader
\* methods, lines 588-592, with method.__name__.replace('_download_with_', '')
Methods == <<"instagrapi", "ytdlp", "requests_fallback">>

\* faulty variant of NextMethod: a method is skipped
NextMethodSkipping(k) == k + 2

\* the for loop of line 595 moves to the next method
NextMethod(k) == k + 1

\* print(f"Download method {method.__name__} failed: {e}"), line 603
Failure(k, e) == [method |-> Methods[k], error |-> e]

\* faulty variant of ChainCatch: the failure is not logged
ChainCatchUnlogged(j, e) ==
  /\ last_error' = [last_error EXCEPT ![j] = e]
  /\ UNCHANGED errlog
  /\ IF method[j] < Len(Methods)
     THEN /\ method' = [method EXCEPT ![j] = NextMethod(@)]
          /\ pc' = [pc EXCEPT ![j] = "ig_try"]
     ELSE /\ UNCHANGED method
          /\ pc' = [pc EXCEPT ![j] = "ig_exhaust"]

\* faulty variant of ChainCatch: only the first error is remembered
ChainCatchFirstError(j, e) ==
  /\ last_error' = [last_error EXCEPT ![j] = IF @ = None THEN e ELSE @]
  /\ errlog' = [errlog EXCEPT ![j] = Append(@, Failure(method[j], e))]
  /\ IF method[j] < Len(Methods)
     THEN /\ method' = [method EXCEPT ![j] = NextMethod(@)]
          /\ pc' = [pc EXCEPT ![j] = "ig_try"]
     ELSE /\ UNCHANGED method
          /\ pc' = [pc EXCEPT ![j] = "ig_exhaust"]

\* except Exception as e (lines 601-604): remember the error, print it, go on
\* with the next method; after the last one fall out of the loop (line 606)
ChainCatch(j, e) ==
  /\ last_error' = [last_error EXCEPT ![j] = e]
  /\ errlog' = [errlog EXCEPT ![j] = Append(@, Failure(method[j], e))]
  /\ IF method[j] < Len(Methods)
     THEN /\ method' = [method EXCEPT ![j] = NextMethod(@)]
          /\ pc' = [pc EXCEPT ![j] = "ig_try"]
     ELSE /\ UNCHANGED method
          /\ pc' = [pc EXCEPT ![j] = "ig_exhaust"]

clock == <<now, ticks, wake, YT_DLP_AVAILABLE, INSTAGRAPI_AVAILABLE>>
http == <<polled, resp>>
xfer == <<thread, bytes, total, round>>

\* the record written by a strategy that succeeds
IgComplete(j, f, m, fmt) ==
  /\ conversion_statuses' = Put(conversion_statuses, j, Completed(j, f, m))
  /\ pc' = [pc EXCEPT ![j] = "done"]
  /\ result' = [result EXCEPT ![j] = [outcome |-> "return", format |-> fmt]]

\* download_video, lines 573-594
IgStart(j) ==
  /\ LoopFree
  /\ pc[j] = "spawned"
  /\ req[j].platform = "instagram"
  /\ dirs' = MakeDirs(dirs, j, now)
  /\ conversion_statuses' = Put(conversion_statuses, j,
       ConversionStatus(5, "initializing", None, None, 60,
                        <<"Starting Instagram download...">>))
  /\ method' = [method EXCEPT ![j] = 1]
  /\ pc' = [pc EXCEPT ![j] = "ig_try"]
  /\ UNCHANGED <<clock, rest, http, xfer, download_tasks, req, last_error, errlog,
                 fname, title, result>>

\* download_video, lines 596-598: announce the method and call it
IgTry(j) ==
  /\ pc[j] = "ig_try"
  /\ IF j \notin DOMAIN conversion_statuses
     THEN ChainCatch(j, <<"KeyError">>) /\ UNCHANGED conversion_statuses
     ELSE /\ conversion_statuses' = SetMessage(conversion_statuses, j,
               <<"Trying ", Methods[method[j]], " method...">>)
          /\ pc' = [pc EXCEPT ![j] =
               CASE method[j] = 1 -> "ig1_enter"
                 [] method[j] = 2 -> "ig2_enter"
                 [] OTHER -> "ig3_enter"]
          /\ UNCHANGED <<method, last_error, errlog>>
  /\ UNCHANGED <<clock, rest, http, xfer, download_tasks, dirs, req, fname, title,
                 result>>

\* download_video, lines 606-610: every method failed
IgExhausted(j) ==
  /\ pc[j] = "ig_exhaust"
  /\ pc' = [pc EXCEPT ![j] = "done"]
  /\ IF j \notin DOMAIN conversion_statuses
     THEN /\ result' = [result EXCEPT ![j] =
               [outcome |-> "KeyError", format |-> "none"]]
          /\ UNCHANGED conversion_statuses
     ELSE /\ conversion_statuses' =
               [conversion_statuses EXCEPT ![j].status = "failed",
                  ![j].message =
                    <<"All download methods failed. Last error: ">>
                      \o last_error[j]]
          /\ result' = [result EXCEPT ![j] =
               [outcome |-> "HTTPException", format |-> "none"]]
  /\ UNCHANGED <<clock, rest, http, xfer, download_tasks, dirs, req, method,
                 last_error, errlog, fname, title>>

\* raise Exception(f"instagrapi download failed: {str(e)}"), line 722
Wrap1(e) == <<"instagrapi download failed: ">> \o e

\* _download_with_instagrapi, lines 614-618
Ig1Enter(j) ==
  /\ pc[j] = "ig1_enter"
  /\ IF ~INSTAGRAPI_AVAILABLE
       THEN ChainCatch(j, <<"instagrapi not available">>)
            /\ UNCHANGED conversion_statuses
     ELSE IF j \notin DOMAIN conversion_statuses
       THEN ChainCatch(j, <<"KeyError">>) /\ UNCHANGED conversion_statuses
     ELSE /\ conversion_statuses' =
               [conversion_statuses EXCEPT ![j].progress = 10,
                  ![j].message = <<"Fetching Instagram video info...">>]
          /\ pc' = [pc EXCEPT ![j] = "ig1_info"]
          /\ UNCHANGED <<method, last_error, errlog>>
  /\ UNCHANGED <<clock, rest, http, xfer, download_tasks, dirs, req, fname, title,
                 result>>

\* _download_with_instagrapi, lines 620-654: media_info raises, or the post
\* is no video, or it has no video versions, or the video is requested
Ig1MediaInfo(j) ==
  /\ pc[j] = "ig1_info"
  /\ \/ /\ \E e \in {<<"ClientError">>, <<"Not a video post">>} :
             ChainCatch(j, Wrap1(e))
        /\ UNCHANGED conversion_statuses
     \/ /\ conversion_statuses' =
             [conversion_statuses EXCEPT ![j].progress = 30,
                ![j].message = <<"Downloading video...">>]
        /\ \/ ChainCatch(j, Wrap1(<<"No video versions found">>))
           \/ /\ pc' = [pc EXCEPT ![j] = "ig1_get"]
              /\ UNCHANGED <<method, last_error, errlog>>
  /\ UNCHANGED <<clock, rest, http, xfer, download_tasks, dirs, req, fname, title,
                 result>>

\* f"{username}_instagram_{timestamp}.mp4", line 648
IgFile == FileName("user_instagram", "mp4")

\* _download_with_instagrapi, lines 654-662: the response arrives (or the
\* request fails); Content-Length is read and the output file opened
Ig1Response(j) ==
  /\ LoopFree
  /\ pc[j] = "ig1_get"
  /\ \/ /\ \E e \in {<<"ClientError">>, <<"Download failed with status">>} :
             ChainCatch(j, Wrap1(e))
        /\ UNCHANGED <<dirs, bytes, total>>
     \/ /\ ~dirs[j].exists
        /\ ChainCatch(j, Wrap1(<<"FileNotFoundError">>))
        /\ UNCHANGED <<dirs, bytes, total>>
     \/ /\ dirs[j].exists
        /\ \E total_size \in Totals, c \in CtimeAfterChange(dirs, j, now) :
             /\ total' = [total EXCEPT ![j] = total_size]
             /\ dirs' = AddFile(dirs, j, IgFile, c)
        /\ bytes' = [bytes EXCEPT ![j] = 0]
        /\ pc' = [pc EXCEPT ![j] = "ig1_chunks"]
        /\ UNCHANGED <<method, last_error, errlog>>
  /\ UNCHANGED <<clock, rest, http, thread, round, conversion_statuses,
                 download_tasks, req, fname, title, result>>

\* progress = 30 + int((downloaded / total_size) * 40); min(70, progress)
ChunkProgress(downloaded, total_size) ==
  Min(70, 30 + (downloaded * 40) \div total_size)

\* _download_with_instagrapi, lines 663-669: one chunk arrives (or the
\* transfer breaks)
Ig1Chunk(j) ==
  /\ LoopFree
  /\ pc[j] = "ig1_chunks"
  /\ \/ /\ ChainCatch(j, Wrap1(<<"ClientError">>))
        /\ UNCHANGED <<bytes, conversion_statuses>>
     \/ /\ bytes[j] < MaxBytes
        /\ \E n \in 1..(MaxBytes - bytes[j]) :
             LET downloaded == bytes[j] + n IN
             /\ bytes' = [bytes EXCEPT ![j] = downloaded]
             /\ IF total[j] > 0
                THEN IF j \notin DOMAIN conversion_statuses
                     THEN /\ ChainCatch(j, Wrap1(<<"KeyError">>))
                          /\ UNCHANGED conversion_statuses
                     ELSE /\ conversion_statuses' =
                               SetProgress(conversion_statuses, j,
                                  ChunkProgress(downloaded, total[j]))
                          /\ UNCHANGED <<pc, method, last_error, errlog>>
                ELSE UNCHANGED <<conversion_statuses, pc, method,
                                 last_error, errlog>>
  /\ UNCHANGED <<clock, rest, http, thread, total, round, download_tasks, dirs,
                 req, fname, title, result>>

\* _download_with_instagrapi, lines 671-676 and 699-719: the body is
\* complete
Ig1ChunksEnd(j) ==
  /\ LoopFree
  /\ pc[j] = "ig1_chunks"
  /\ IF j \notin DOMAIN conversion_statuses
       THEN /\ ChainCatch(j, Wrap1(<<"KeyError">>))
            /\ UNCHANGED <<conversion_statuses, result>>
     ELSE IF req[j].format = "mp3"
       THEN /\ conversion_statuses' =
                 [conversion_statuses EXCEPT ![j].progress = 70,
                    ![j].status = "converting",
                    ![j].message = <<"Converting to MP3...">>]
            /\ pc' = [pc EXCEPT ![j] = "ig1_ff_wait"]
            /\ UNCHANGED <<method, last_error, errlog, result>>
     ELSE /\ IgComplete(j, IgFile,
                <<"Download completed successfully!">>, req[j].format)
          /\ UNCHANGED <<method, last_error, errlog>>
  /\ bytes' = [bytes EXCEPT ![j] = 0]
  /\ total' = [total EXCEPT ![j] = 0]
  /\ UNCHANGED <<clock, rest, http, thread, round, download_tasks, dirs, req, fname,
                 title>>

\* _download_with_instagrapi, lines 681-719: ffmpeg wrote the audio file, or
\* ran without writing it, or could not be run (format_type = "mp4")
Ig1AfterFfmpeg(j) ==
  /\ LoopFree
  /\ pc[j] = "ig1_ff_wait"
  /\ LET filename == IgFile
         msg == <<"Download completed successfully!">> IN
     \/ /\ dirs[j].exists
        /\ \E c \in CtimeAfterChange(dirs, j, now) :
             dirs' = [AddFile(dirs, j, AudioName(filename), c) EXCEPT
                        ![j].files = RemoveFile(@, filename)]
        /\ IgComplete(j, AudioName(filename), msg, "mp3")
     \/ /\ UNCHANGED dirs
        /\ \E fmt \in {"mp3", "mp4"} : IgComplete(j, filename, msg, fmt)
  /\ UNCHANGED <<clock, rest, http, xfer, download_tasks, req, method, last_error,
                 errlog, fname, title>>

\* raise Exception(f"yt-dlp download failed: {str(e)}"), line 793
Wrap2(e) == <<"yt-dlp download failed: ">> \o e

\* _download_with_ytdlp, lines 726-730
Ig2Enter(j) ==
  /\ pc[j] = "ig2_enter"
  /\ IF ~YT_DLP_AVAILABLE
       THEN ChainCatch(j, <<"yt-dlp not available">>)
            /\ UNCHANGED conversion_statuses
     ELSE IF j \notin DOMAIN conversion_statuses
       THEN ChainCatch(j, <<"KeyError">>) /\ UNCHANGED conversion_statuses
     ELSE /\ conversion_statuses' =
               [conversion_statuses EXCEPT ![j].progress = 10,
                  ![j].message = <<"Using yt-dlp for Instagram download...">>]
          /\ pc' = [pc EXCEPT ![j] = "ig2_info"]
          /\ UNCHANGED <<method, last_error, errlog>>
  /\ UNCHANGED <<clock, rest, http, xfer, download_tasks, dirs, req, fname, title,
                 result>>

\* _download_with_ytdlp, lines 751-762: extract_info returns or raises; then
\* the download is handed to a worker thread and awaited
Ig2ExtractInfo(j) ==
  /\ pc[j] = "ig2_info"
  /\ \/ /\ ChainCatch(j, Wrap2(<<"extract_info failed">>))
        /\ UNCHANGED <<conversion_statuses, thread, bytes, round>>
     \/ /\ conversion_statuses' =
             [conversion_statuses EXCEPT ![j].progress = 20,
                ![j].status = "downloading"]
        /\ pc' = [pc EXCEPT ![j] = "ig2_dl_wait"]
        /\ thread' = [thread EXCEPT ![j] = "running"]
        /\ bytes' = [bytes EXCEPT ![j] = 0]
        /\ round' = [round EXCEPT ![j] = 0]
        /\ UNCHANGED <<method, last_error, errlog>>
  /\ UNCHANGED <<clock, rest, http, total, download_tasks, dirs, req, fname, title,
                 result>>

\* _download_with_ytdlp, lines 764-790: the await of the thread ends
Ig2AfterDownload(j) ==
  /\ LoopFree
  /\ pc[j] = "ig2_dl_wait"
  /\ thread[j] \in {"ok", "error"}
  /\ thread' = [thread EXCEPT ![j] = "idle"]
  /\ IF thread[j] = "error"
       THEN /\ ChainCatch(j, Wrap2(<<"yt-dlp download error">>))
            /\ UNCHANGED <<conversion_statuses, result>>
     ELSE IF ~dirs[j].exists
       THEN /\ ChainCatch(j, Wrap2(<<"FileNotFoundError">>))
            /\ UNCHANGED <<conversion_statuses, result>>
     ELSE IF dirs[j].files = <<>>
       THEN /\ ChainCatch(j, Wrap2(<<"No file downloaded">>))
            /\ UNCHANGED <<conversion_statuses, result>>
     ELSE /\ IgComplete(j, MostRecent(dirs[j].files),
                <<"Download completed with yt-dlp!">>, req[j].format)
          /\ UNCHANGED <<method, last_error, errlog>>
  /\ UNCHANGED <<clock, rest, http, bytes, total, round, download_tasks, dirs, req,
                 fname, title>>

\* raise Exception(f"Fallback download failed: {str(e)}"), line 880
Wrap3(e) == <<"Fallback download failed: ">> \o e

\* _download_with_requests_fallback, lines 807-824
Ig3Enter(j) ==
  /\ pc[j] = "ig3_enter"
  /\ IF j \notin DOMAIN conversion_statuses
       THEN ChainCatch(j, <<"KeyError">>) /\ UNCHANGED conversion_statuses
     ELSE /\ conversion_statuses' =
               [conversion_statuses EXCEPT ![j].progress = 10,
                  ![j].message = <<"Using fallback download method...">>]
          /\ IF ~req[j].shortcode
             THEN ChainCatch(j,
                    Wrap3(<<"Could not extract Instagram shortcode">>))
             ELSE /\ pc' = [pc EXCEPT ![j] = "ig3_oembed"]
                  /\ UNCHANGED <<method, last_error, errlog>>
  /\ title' = [title EXCEPT ![j] = FALSE]
  /\ UNCHANGED <<clock, rest, http, xfer, download_tasks, dirs, req, fname, result>>

\* _download_with_requests_fallback, lines 823-827: the oEmbed answer; title
\* is assigned only when its status is 200
Ig3Oembed(j) ==
  /\ LoopFree
  /\ pc[j] = "ig3_oembed"
  /\ \/ /\ ChainCatch(j, Wrap3(<<"ClientError">>))
        /\ UNCHANGED title
     \/ /\ \E status200 \in BOOLEAN : title' = [title EXCEPT ![j] = status200]
        /\ pc' = [pc EXCEPT ![j] = "ig3_api"]
        /\ UNCHANGED <<method, last_error, errlog>>
  /\ UNCHANGED <<clock, rest, http, xfer, conversion_statuses, download_tasks, dirs,
                 req, fname, result>>

\* _download_with_requests_fallback, lines 836-849 and 877: the answer of the
\* downloader API; without a 'video' entry the method gives up
Ig3Api(j) ==
  /\ LoopFree
  /\ pc[j] = "ig3_api"
  /\ \/ /\ \E e \in {<<"ClientError">>, <<"Fallback download method failed">>} :
             ChainCatch(j, Wrap3(e))
        /\ title' = [title EXCEPT ![j] = FALSE]
     \/ /\ pc' = [pc EXCEPT ![j] = "ig3_video"]
        /\ UNCHANGED <<method, last_error, errlog, title>>
  /\ UNCHANGED <<clock, rest, http, xfer, conversion_statuses, download_tasks, dirs,
                 req, fname, result>>

\* f"instagram_{shortcode}.mp4", line 846
FallbackFile == FileName("instagram_code", "mp4")

\* lines 855-875 of _download_with_requests_fallback: the record is replaced;
\* building the returned dict reads title, which raises UnboundLocalError
\* when the oEmbed answer was not 200 (caught at line 879)
Ig3Finish(j) ==
  /\ conversion_statuses' =
       Put(conversion_statuses, j,
           Completed(j, FallbackFile,
                     <<"Download completed with fallback method!">>))
  /\ IF title[j]
     THEN /\ pc' = [pc EXCEPT ![j] = "done"]
          /\ result' = [result EXCEPT ![j] =
               [outcome |-> "return", format |-> req[j].format]]
          /\ UNCHANGED <<method, last_error, errlog>>
     ELSE /\ ChainCatch(j, Wrap3(<<"UnboundLocalError">>))
          /\ UNCHANGED result

\* _download_with_requests_fallback, lines 849-875: the video answer; with
\* status 200 the body is written to the output file
Ig3Video(j) ==
  /\ LoopFree
  /\ pc[j] = "ig3_video"
  /\ \/ /\ ChainCatch(j, Wrap3(<<"ClientError">>))
        /\ UNCHANGED <<conversion_statuses, dirs, result>>
     \/ /\ ~dirs[j].exists
        /\ ChainCatch(j, Wrap3(<<"FileNotFoundError">>))
        /\ UNCHANGED <<conversion_statuses, dirs, result>>
     \/ /\ dirs[j].exists
        /\ \E c \in CtimeAfterChange(dirs, j, now) :
             dirs' = AddFile(dirs, j, FallbackFile, c)
        /\ Ig3Finish(j)
     \/ /\ UNCHANGED dirs
        /\ Ig3Finish(j)
  /\ title' = [title EXCEPT ![j] = FALSE]
  /\ UNCHANGED <<clock, rest, http, xfer, download_tasks, req, fname>>

\* ------------------------------------------------------ task registry
\* faulty variant of TaskDone: the callback leaves the entry
TaskDoneKeeping(j) ==
  /\ LoopFree
  /\ pc[j] = "done"
  /\ j \in download_tasks
  /\ UNCHANGED vars

\* cleanup_task, run by the done callback of a finished task
TaskDone(j) ==
  /\ LoopFree
  /\ pc[j] = "done"
  /\ j \in download_tasks
  /\ download_tasks' = download_tasks \ {j}
  /\ UNCHANGED <<clock, rest, http, xfer, conversion_statuses, dirs, req, pc, method,
                 last_error, errlog, fname, title, result>>

\* ------------------------------------------------------------ handlers
\* what the polling client keeps of an answer (message and estimated_time
\* are advisory)
Seen(s) ==
  [progress |-> s.progress, status |-> s.status,
   download_url |-> s.download_url, filename |-> s.filename]

\* faulty variant of Expire: a poll of an expired record clears its URL
ExpireClearingUrl(cs, d, j) ==
  IF cs[j].status = "expired"
  THEN [cs EXCEPT ![j].download_url = None]
  ELSE IF /\ cs[j].status \in {"completed", "failed"}
          /\ cs[j].download_url # None
          /\ ~d[j].exists
  THEN [cs EXCEPT ![j].status = "expired", ![j].progress = 0,
                  ![j].message = <<"File has expired and been deleted">>]
  ELSE cs

\* faulty variant of Expire: the phase of the record is not looked at
ExpireAnyPhase(cs, d, j) ==
  IF ~d[j].exists
  THEN [cs EXCEPT ![j].status = "expired", ![j].progress = 0,
                  ![j].message = <<"File has expired and been deleted">>]
  ELSE cs

\* faulty variant of Expire: the directory is not looked at
ExpireUnchecked(cs, d, j) ==
  IF /\ cs[j].status \in {"completed", "failed"}
     /\ cs[j].download_url # None
  THEN [cs EXCEPT ![j].status = "expired", ![j].progress = 0,
                  ![j].message = <<"File has expired and been deleted">>]
  ELSE cs

\* get_progress, lines 1015-1023: a finished job that has a download URL and
\* whose directory is gone is marked expired
Expire(cs, d, j) ==
  IF /\ cs[j].status \in {"completed", "failed"}
     /\ cs[j].download_url # None
     /\ ~d[j].exists
  THEN [cs EXCEPT ![j].status = "expired", ![j].progress = 0,
                  ![j].message = <<"File has expired and been deleted">>]
  ELSE cs

\* get_progress
GetProgress(j) ==
  /\ LoopFree
  /\ lifespan = "up"
  /\ pc[j] \notin {"none"}
  /\ IF j \notin DOMAIN conversion_statuses
     THEN /\ polled' = [polled EXCEPT ![j] = [code |-> 404, body |-> <<>>]]
          /\ UNCHANGED conversion_statuses
     ELSE LET cs == Expire(conversion_statuses, dirs, j)
          IN /\ conversion_statuses' = cs
             /\ polled' = [polled EXCEPT ![j] =
                  [code |-> 200, body |-> <<Seen(cs[j])>>]]
  /\ UNCHANGED <<clock, rest, xfer, resp, download_tasks, dirs, req, pc, method,
                 last_error, errlog, fname, title, result>>

\* the file names a client may ask for: those of the directory and one that
\* no download writes
FileNames(j) ==
  {dirs[j].files[i] : i \in 1..Len(dirs[j].files)}
    \cup {FileName("other", "mp4")}

\* download_file: a file that exists gets its times set to now and is sent
DownloadFile(j) ==
  /\ LoopFree
  /\ lifespan = "up"
  /\ pc[j] \notin {"none"}
  /\ \E filename \in FileNames(j) :
       IF dirs[j].exists /\ \E i \in 1..Len(dirs[j].files) :
                              dirs[j].files[i] = filename
       THEN /\ dirs' = [dirs EXCEPT ![j].served = <<now>>]
            /\ resp' = [op |-> "download", id |-> j, code |-> 200]
       ELSE /\ resp' = [op |-> "download", id |-> j, code |-> 404]
            /\ UNCHANGED dirs
  /\ UNCHANGED <<clock, rest, xfer, polled, conversion_statuses,
                 download_tasks, req, pc, method, last_error, errlog, fname,
                 title, result>>

\* delete_files
DeleteFiles(j) ==
  /\ LoopFree
  /\ lifespan = "up"
  /\ pc[j] \notin {"none"}
  /\ IF dirs[j].exists
     THEN /\ dirs' = RmTree(dirs, j)
          /\ conversion_statuses' =
               IF j \in DOMAIN conversion_statuses
               THEN Del(conversion_statuses, j) ELSE conversion_statuses
          /\ resp' = [op |-> "delete", id |-> j, code |-> 200]
     ELSE /\ resp' = [op |-> "delete", id |-> j, code |-> 404]
          /\ UNCHANGED <<dirs, conversion_statuses>>
  /\ UNCHANGED <<clock, rest, xfer, polled, download_tasks, req, pc, method,
                 last_error, errlog, fname, title, result>>

\* the phases health_check counts as active, line 1068
ActiveStatuses ==
  {"pending", "downloading", "converting", "initializing", "fetching_info"}

\* health_check, lines 1059-1076: the dependency flags and the three counts
\* of "stats" (DOWNLOADS_DIR and TEMP_DIR exist from startup on; the ffmpeg
\* probe is not kept)
HealthCheck ==
  /\ LoopFree
  /\ lifespan = "up"
  /\ health' =
       <<[yt_dlp |-> YT_DLP_AVAILABLE,
          instagrapi |-> INSTAGRAPI_AVAILABLE,
          active_downloads |->
            Cardinality({k \in DOMAIN conversion_statuses :
                           conversion_statuses[k].status \in ActiveStatuses}),
          total_conversions |-> Cardinality(DOMAIN conversion_statuses),
          files_on_disk |-> Cardinality({k \in JobIds : dirs[k].exists})]>>
  /\ UNCHANGED <<clock, lifespan, temp, input, output, http, xfer,
                 conversion_statuses, download_tasks, dirs, req, pc, method,
                 last_error, errlog, fname, title, result>>

\* health_check, lines 1078-1095: the answer is returned
HealthReturn ==
  /\ health # None
  /\ health' = None
  /\ UNCHANGED <<clock, lifespan, temp, input, output, http, xfer,
                 conversion_statuses, download_tasks, dirs, req, pc, method,
                 last_error, errlog, fname, title, result>>

\* ----------------------------------------------------- retention sweep
\* faulty variant of Aged: the age counts from the last time a file of the
\* directory was served
AgedSinceServed(d, j, t) ==
  /\ d[j].exists
  /\ t - (IF d[j].served = None THEN d[j].ctime ELSE d[j].served[1])
       > MAX_FILE_AGE

\* faulty variant of Aged: a directory exactly MAX_FILE_AGE old counts as aged
AgedOrEqual(d, j, t) == d[j].exists /\ t - d[j].ctime >= MAX_FILE_AGE

\* age = (current_time - dir_time).total_seconds(); age > MAX_FILE_AGE
Aged(d, j, t) == d[j].exists /\ t - d[j].ctime > MAX_FILE_AGE

\* faulty variant of CleanupStatuses: the record of a removed directory is
\* kept and marked instead of being removed
CleanupStatusesMarking(cs, d, t) ==
  [k \in DOMAIN cs |->
     IF Aged(d, k, t)
     THEN [cs[k] EXCEPT !.status = "expired", !.progress = 0]
     ELSE cs[k]]

\* cleanup_old_files, lines 155-168, on the job directories
CleanupDirs(d, t) == [j \in JobIds |-> IF Aged(d, j, t) THEN NoDir ELSE d[j]]
CleanupStatuses(cs, d, t) ==
  [k \in {i \in DOMAIN cs : ~Aged(d, i, t)} |-> cs[k]]

\* os.listdir(TEMP_DIR): the existing files in an order the OS chooses
Listings(tmp) ==
  LET S == {s \in ScratchIds : tmp[s].exists}
  IN {q \in [1..Cardinality(S) -> S] :
        \A a, b \in 1..Cardinality(S) : a # b => q[a] # q[b]}

\* cleanup_old_files, lines 171-180, on the files of TEMP_DIR in the order
\* listed; os.remove raising leaves the loop for the except clause of line
\* 182, which ends the sweep
RECURSIVE CleanupTemp(_, _, _)
CleanupTemp(listing, tmp, t) ==
  IF listing = <<>> THEN tmp
  ELSE LET s == Head(listing) IN
    IF t - tmp[s].ctime > MAX_FILE_AGE
    THEN IF tmp[s].removable
         THEN CleanupTemp(Tail(listing), [tmp EXCEPT ![s] = NoFile], t)
         ELSE tmp
    ELSE CleanupTemp(Tail(listing), tmp, t)

\* periodic_cleanup: the sleep of CLEANUP_INTERVAL ends, the sweep runs and
\* the next sleep starts
PeriodicCleanup ==
  /\ LoopFree
  /\ now >= wake
  /\ dirs' = CleanupDirs(dirs, now)
  /\ conversion_statuses' = CleanupStatuses(conversion_statuses, dirs, now)
  /\ \E listing \in Listings(temp) : temp' = CleanupTemp(listing, temp, now)
  /\ wake' = now + CLEANUP_INTERVAL
  /\ UNCHANGED <<now, ticks, YT_DLP_AVAILABLE, INSTAGRAPI_AVAILABLE, lifespan,
                 input, output, health, http,
                 xfer, download_tasks, req, pc, method, last_error, errlog,
                 fname, title, result>>

\* ----------------------------------------------------------- shutdown
\* the tasks shutdown_event cancels: those of the registry that still run
Running(j) == j \in download_tasks /\ pc[j] # "done"

\* shutdown_event, lines 1143-1147: every registered task is cancelled, then
\* the handler waits for them (uvicorn has stopped serving requests before
\* it runs the shutdown handlers, and the first step of a task just created
\* is queued ahead of them)
Shutdown ==
  /\ LoopFree
  /\ lifespan = "up"
  /\ \A j \in JobIds : pc[j] # "spawned"
  /\ pc' = [j \in JobIds |-> IF Running(j) THEN "cancelled" ELSE pc[j]]
  /\ lifespan' = IF download_tasks = {} THEN "down" ELSE "gathering"
  /\ UNCHANGED <<clock, temp, input, output, health, http, xfer, conversion_statuses,
                 download_tasks, dirs, req, method, last_error, errlog,
                 fname, title, result>>

\* a cancelled task resumes: CancelledError is raised at the await it was
\* suspended at; it is no Exception, so neither the except clauses of the
\* strategies and of the chain nor the one of lines 413-423 catch it, and
\* the task ends cancelled (a worker thread it started runs on)
Cancelled(j) ==
  /\ LoopFree
  /\ pc[j] = "cancelled"
  /\ pc' = [pc EXCEPT ![j] = "done"]
  /\ result' = [result EXCEPT ![j] =
       [outcome |-> "CancelledError", format |-> "none"]]
  /\ fname' = [fname EXCEPT ![j] = None]
  /\ title' = [title EXCEPT ![j] = FALSE]
  /\ UNCHANGED <<clock, rest, http, xfer, conversion_statuses, download_tasks,
                 dirs, req, method, last_error, errlog>>

\* shutdown_event, lines 1146-1149: gather returns once every task is done
\* (their done callbacks were scheduled before gather's); the process exits
ShutdownEnd ==
  /\ LoopFree
  /\ lifespan = "gathering"
  /\ download_tasks = {}
  /\ lifespan' = "down"
  /\ UNCHANGED <<clock, temp, input, output, health, http, xfer, conversion_statuses,
                 download_tasks, dirs, req, pc, method, last_error, errlog,
                 fname, title, result>>

\* ------------------------------------------------------- specification
Next ==
  \/ Tick
  \/ PeriodicCleanup
  \/ \E j \in JobIds :
       \/ StartDownload(j)
       \/ GetProgress(j)
       \/ DownloadFile(j)
       \/ DeleteFiles(j)
       \/ TaskDone(j)
       \/ HookDownloading(j)
       \/ HookFinished(j)
       \/ ThreadEnd(j)
       \/ YtStart(j)
       \/ YtFetchingInfo(j)
       \/ YtExtractInfo(j)
       \/ YtAfterDownload(j)
       \/ YtAfterFfmpeg(j)
       \/ IgStart(j)
       \/ IgTry(j)
       \/ IgExhausted(j)
       \/ Ig1Enter(j)
       \/ Ig1MediaInfo(j)
       \/ Ig1Response(j)
       \/ Ig1Chunk(j)
       \/ Ig1ChunksEnd(j)
       \/ Ig1AfterFfmpeg(j)
       \/ Ig2Enter(j)
       \/ Ig2ExtractInfo(j)
       \/ Ig2AfterDownload(j)
       \/ Ig3Enter(j)
       \/ Ig3Oembed(j)
       \/ Ig3Api(j)
       \/ Ig3Video(j)

\* ------------------------------------------------- platform resolver
\* the URLs detect_platform is studied on: scheme, optional www., a host
\* (written as is or with a capital first letter), and a path or a query
\* that mentions another site
S_https == <<"h","t","t","p","s",":","/","/">>
S_www == <<"w","w","w",".">>
H_netflix_com == <<"n","e","t","f","l","i","x",".","c","o","m">>
H_example_org == <<"e","x","a","m","p","l","e",".","o","r","g">>
P_plain == <<"/","a">>
P_query == <<"/","?","u","=">> \o F_youtu_be
P_share == <<"/","?","v","i","a","=">> \o F_x_com
Capital(h) ==
  [h EXCEPT ![1] = CASE @ = "y" -> "Y" [] @ = "i" -> "I" [] @ = "x" -> "X"
                     [] OTHER -> @]
ResolverHosts ==
  {F_youtube_com, F_youtu_be, F_instagram_com, F_tiktok_com, F_twitter_com,
   F_x_com, F_facebook_com, F_fb_watch, H_netflix_com, H_example_org}
ResolverUrls ==
  {S_https \o w \o h \o q :
     w \in {<<>>, S_www},
     h \in ResolverHosts \cup {Capital(x) : x \in ResolverHosts},
     q \in {P_plain, P_query, P_share}}

ResolverInit ==
  /\ Startup
  /\ input \in ResolverUrls
  /\ output = None

\* platform = detect_platform(request.url), line 940
DetectPlatform ==
  /\ output = None
  /\ output' = <<detect_platform(input)>>
  /\ UNCHANGED <<clock, lifespan, temp, input, health, http, xfer,
                 conversion_statuses, download_tasks, dirs, req, pc, method,
                 last_error, errlog, fname, title, result>>

ResolverSpec == ResolverInit /\ [][DetectPlatform]_vars

\* ------------------------------------------------- quality selection
MaxVersions == 3

\* the heights a post or video may be offered in
Heights == {360, 480, 720}

\* the heights a client may ask for ("480p" is 480)
Qualities == {240, 360, 480, 500, 720}

\* media_info.video_versions / the formats of a video: up to MaxVersions
\* versions of different heights, in the order the site lists them
VersionLists ==
  UNION { {v \in [1..n -> Heights] :
             \A a, b \in 1..n : a # b => v[a] # v[b]} : n \in 1..MaxVersions }

\* _download_with_instagrapi, lines 635-643: the first listed version whose
\* height is at most quality_num + 100, else the first listed version
SelectVersion(quality_num, video_versions) ==
  LET fits == {i \in 1..Len(video_versions) :
                 video_versions[i] <= quality_num + 100}
  IN IF fits = {} THEN video_versions[1]
     ELSE video_versions[CHOOSE i \in fits : \A k \in fits : i <= k]

Highest(S) == CHOOSE h \in S : \A k \in S : k <= h

\* download_video, lines 322-327: yt-dlp's reading of the format
\* 'bestvideo[height<=N]+bestaudio/best': the best video stream within the
\* height limit, and the best format when no stream is within it
SelectFormat(quality_num, heights) ==
  LET fits == {h \in heights : h <= quality_num}
  IN IF fits = {} THEN Highest(heights) ELSE Highest(fits)

QualityInit ==
  /\ Startup
  /\ input \in [quality : Qualities, versions : VersionLists]
  /\ output = None

\* the instagrapi strategy selects the version to fetch
SelectInstagrapi ==
  /\ output = None
  /\ output' = <<[by |-> "instagrapi",
                  height |-> SelectVersion(input.quality, input.versions)]>>
  /\ UNCHANGED <<clock, lifespan, temp, input, health, http, xfer,
                 conversion_statuses, download_tasks, dirs, req, pc, method,
                 last_error, errlog, fname, title, result>>

\* the YouTube downloader hands the format to yt-dlp
SelectYtdlp ==
  /\ output = None
  /\ output' = <<[by |-> "yt-dlp",
                  height |-> SelectFormat(input.quality,
                     {input.versions[i] : i \in 1..Len(input.versions)})]>>
  /\ UNCHANGED <<clock, lifespan, temp, input, health, http, xfer,
                 conversion_statuses, download_tasks, dirs, req, pc, method,
                 last_error, errlog, fname, title, result>>

QualitySpec == QualityInit /\ [][SelectInstagrapi \/ SelectYtdlp]_vars

\* the service while it is up
Spec == Init /\ [][Next]_vars

\* the service from startup to the end of shutdown_event
NextShutdown ==
  \/ Next
  \/ Shutdown
  \/ ShutdownEnd
  \/ \E j \in JobIds : Cancelled(j)

SpecShutdown == Init /\ [][NextShutdown]_vars

\* the service while it is up, for clients that start and delete downloads
\* (and neither poll nor fetch), on an event loop that runs every callback
\* it has scheduled: the next step of a coroutine that is inside a
\* synchronous segment, the done callback of a finished task (call_soon)
\* and the wake-up of periodic_cleanup when its sleep is over; time goes on
NextLive ==
  \/ Tick
  \/ PeriodicCleanup
  \/ \E j \in JobIds :
       \/ StartDownload(j)
       \/ DeleteFiles(j)
       \/ TaskDone(j)
       \/ HookDownloading(j)
       \/ HookFinished(j)
       \/ ThreadEnd(j)
       \/ YtStart(j)
       \/ YtFetchingInfo(j)
       \/ YtExtractInfo(j)
       \/ YtAfterDownload(j)
       \/ YtAfterFfmpeg(j)
       \/ IgStart(j)
       \/ IgTry(j)
       \/ IgExhausted(j)
       \/ Ig1Enter(j)
       \/ Ig1MediaInfo(j)
       \/ Ig1Response(j)
       \/ Ig1Chunk(j)
       \/ Ig1ChunksEnd(j)
       \/ Ig1AfterFfmpeg(j)
       \/ Ig2Enter(j)
       \/ Ig2ExtractInfo(j)
       \/ Ig2AfterDownload(j)
       \/ Ig3Enter(j)
       \/ Ig3Oembed(j)
       \/ Ig3Api(j)
       \/ Ig3Video(j)

\* a coroutine that runs goes on to its next await: the code between two
\* awaits is synchronous
Segment ==
  \E j \in JobIds :
    \/ YtFetchingInfo(j)
    \/ YtExtractInfo(j)
    \/ IgTry(j)
    \/ IgExhausted(j)
    \/ Ig1Enter(j)
    \/ Ig1MediaInfo(j)
    \/ Ig2Enter(j)
    \/ Ig2ExtractInfo(j)
    \/ Ig3Enter(j)

SpecLive ==
  /\ Init
  /\ [][NextLive]_vars
  /\ WF_vars(Segment)
  /\ \A j \in JobIds : WF_vars(TaskDone(j))
  /\ WF_vars(PeriodicCleanup)
  /\ WF_vars(Tick)

\* a task takes its first step, or the call job j's coroutine awaits
\* (yt-dlp in its worker thread, ffmpeg, an HTTP request or the next chunk
\* of its body) returns or raises and the coroutine resumes
Returns(j) ==
  \/ YtStart(j)
  \/ IgStart(j)
  \/ ThreadEnd(j)
  \/ YtAfterDownload(j)
  \/ YtAfterFfmpeg(j)
  \/ Ig1Response(j)
  \/ Ig1ChunksEnd(j)
  \/ Ig1AfterFfmpeg(j)
  \/ Ig2AfterDownload(j)
  \/ Ig3Oembed(j)
  \/ Ig3Api(j)
  \/ Ig3Video(j)

\* SpecLive with external calls that all return or raise in the end
SpecLiveCalls ==
  /\ SpecLive
  /\ \A j \in JobIds : WF_vars(Returns(j))

\* the same from startup to the end of shutdown_event
NextLiveShutdown ==
  \/ NextLive
  \/ Shutdown
  \/ ShutdownEnd
  \/ \E j \in JobIds : Cancelled(j)

SpecLiveShutdown ==
  /\ Init
  /\ [][NextLiveShutdown]_vars
  /\ WF_vars(Segment)
  /\ \A j \in JobIds : WF_vars(TaskDone(j))

\* the service while it is up, with a client that asks for its health
NextHealth ==
  \/ Next
  \/ HealthCheck
  \/ HealthReturn

SpecHealth == Init /\ [][NextHealth]_vars

\* =============================================================== claims
Tracked(j) == j \in DOMAIN conversion_statuses
TrackedNext(j) == j \in DOMAIN conversion_statuses'
Terminal == {"completed", "failed", "expired"}

\* C1: for one job, the progress values of successive polls do not decrease
\* from acceptance until the job is seen completed or failed (a poll that
\* shows failed or expired may show the reset value).
C1_PolledProgressMonotone ==
  [][\A j \in JobIds :
       ( /\ polled[j].code = 200
         /\ polled'[j].code = 200
         /\ polled[j].body[1].status \notin Terminal
         /\ polled'[j].body[1].status \notin {"failed", "expired"} )
       => polled'[j].body[1].progress >= polled[j].body[1].progress]_vars

\* C2: every record whose phase is completed, in the tracker or in a poll's
\* answer, has progress 100 and a download URL and a file name that are set
\* and name the job's file.
CompleteView(j, s) ==
  s.status = "completed" =>
    /\ s.progress = 100
    /\ s.filename # None
    /\ Len(s.filename) = 1
    /\ s.download_url = DownloadUrl(j, s.filename[1])
C2_CompletedIsWhole ==
  \A j \in JobIds :
    /\ Tracked(j) => CompleteView(j, conversion_statuses[j])
    /\ polled[j].code = 200 => CompleteView(j, polled[j].body[1])
C2_Witness ==
  \E j \in JobIds :
    /\ Tracked(j)
    /\ conversion_statuses[j].status = "completed"
    /\ polled[j].code = 200
    /\ polled[j].body[1].status = "completed"
    /\ req[j].platform = "instagram"
    /\ method[j] = 3

\* C3: when the k-th method of the Instagram chain succeeds after methods
\* 1..k-1 failed, the record is completed at that moment and the chain has
\* logged exactly k-1 failures, those of methods 1..k-1 in that order; for
\* k = N this is N-1 entries.
C3_SuccessAfterFailures ==
  [][\A j \in JobIds :
       ( /\ req[j].platform = "instagram"
         /\ result[j].outcome = "none"
         /\ result'[j].outcome = "return" )
       => /\ TrackedNext(j)
          /\ conversion_statuses'[j].status = "completed"
          /\ Len(errlog'[j]) = method'[j] - 1
          /\ \A i \in 1..Len(errlog'[j]) : errlog'[j][i].method = Methods[i]]_vars
C3_Witness ==
  \E j \in JobIds :
    /\ result[j].outcome = "return"
    /\ method[j] = Len(Methods)
    /\ Len(errlog[j]) = Len(Methods) - 1
    /\ Tracked(j)
    /\ conversion_statuses[j].status = "completed"

\* C4: when the chain gives up, every method has been tried and has failed,
\* in order, and a record that is tracked at that moment is set to failed
\* with a message that carries the error of the last method tried.
C4_ExhaustionReportsLastError ==
  [][\A j \in JobIds :
       (pc[j] = "ig_exhaust" /\ pc'[j] = "done")
       => /\ Len(errlog[j]) = Len(Methods)
          /\ \A i \in 1..Len(Methods) : errlog[j][i].method = Methods[i]
          /\ Tracked(j) =>
               /\ TrackedNext(j)
               /\ conversion_statuses'[j].status = "failed"
               /\ conversion_statuses'[j].message =
                    <<"All download methods failed. Last error: ">>
                      \o errlog[j][Len(Methods)].error]_vars
C4_Witness ==
  \E j \in JobIds :
    /\ pc[j] = "done"
    /\ result[j].outcome = "HTTPException"
    /\ Len(errlog[j]) = Len(Methods)
    /\ errlog[j][1].error # errlog[j][3].error
    /\ errlog[j][2].error # errlog[j][3].error
    /\ Tracked(j)
    /\ conversion_statuses[j].status = "failed"

\* the method a position of the coroutine belongs to (0: none)
StrategyAt(p) ==
  CASE p \in {"ig1_enter", "ig1_info", "ig1_get", "ig1_chunks", "ig1_ff_wait"} -> 1
    [] p \in {"ig2_enter", "ig2_info", "ig2_dl_wait"} -> 2
    [] p \in {"ig3_enter", "ig3_oembed", "ig3_api", "ig3_video"} -> 3
    [] OTHER -> 0

\* C5: the methods of a chain are started in the configured order: the loop
\* moves from method k to k+1 only in a step that logs the failure of k, the
\* code running is that of the current method, the chain ends in failure only
\* after the last method has failed, and after a success nothing is started.
C5_StrictOrder ==
  [][\A j \in JobIds :
       /\ method'[j] # method[j] =>
            \/ method[j] = 0 /\ method'[j] = 1 /\ errlog'[j] = <<>>
            \/ /\ method'[j] = method[j] + 1
               /\ result[j].outcome = "none"
               /\ Len(errlog[j]) = method[j] - 1
               /\ Len(errlog'[j]) = method[j]
               /\ errlog'[j][method[j]].method = Methods[method[j]]
       /\ StrategyAt(pc'[j]) \in {0, method'[j]}
       /\ ( /\ req[j].platform = "instagram"
            /\ result[j].outcome = "none"
            /\ result'[j].outcome \in {"HTTPException", "KeyError"} )
          => Len(errlog[j]) = Len(Methods)
       /\ result[j].outcome = "return" =>
            method'[j] = method[j] /\ pc'[j] = "done"]_vars
C5_Witness ==
  \E j \in JobIds :
    /\ pc[j] = "ig3_oembed"
    /\ method[j] = 3
    /\ Len(errlog[j]) = 2
    /\ errlog[j][1].method = "instagrapi"
    /\ errlog[j][2].method = "ytdlp"

C7_DeleteVersusExpire ==
  [][\A j \in JobIds :
       /\ ( /\ resp' = [op |-> "delete", id |-> j, code |-> 200]
            /\ dirs[j].exists /\ ~dirs'[j].exists
            /\ Tracked(j)
            /\ conversion_statuses[j].status = "completed" )
          => ~TrackedNext(j)
       /\ (pc[j] = "done" /\ ~Tracked(j)) => ~TrackedNext(j)
       /\ (polled'[j] # polled[j] /\ ~Tracked(j)) => polled'[j].code = 404
       /\ ( /\ polled'[j] # polled[j]
            /\ Tracked(j)
            /\ conversion_statuses[j].status = "completed"
            /\ ~dirs[j].exists )
          => /\ TrackedNext(j)
             /\ conversion_statuses'[j].status = "expired"
             /\ polled'[j].code = 200
             /\ polled'[j].body[1].status = "expired"]_vars
C7_Witness ==
  \E j \in JobIds :
    /\ result[j].outcome = "return"
    /\ resp = [op |-> "delete", id |-> j, code |-> 200]
    /\ ~Tracked(j)
    /\ polled[j].code = 404

\* the configured order of the phases
Rank(s) ==
  CASE s = "pending" -> 0 [] s = "initializing" -> 1
    [] s = "fetching_info" -> 2 [] s = "downloading" -> 3
    [] s = "finalizing" -> 4 [] s = "converting" -> 5
    [] s = "completed" -> 6 [] OTHER -> 7

\* C8: the phase of a tracked record changes only forward in the order
\* pending, initializing, fetching_info, downloading, finalizing, converting,
\* completed, or to failed from a phase that is not terminal (or to expired
\* from completed or failed).
C8_PhaseForward ==
  [][\A j \in JobIds :
       ( /\ Tracked(j) /\ TrackedNext(j)
         /\ conversion_statuses'[j].status # conversion_statuses[j].status )
       => LET old == conversion_statuses[j].status
              new == conversion_statuses'[j].status IN
          \/ Rank(old) < Rank(new) /\ Rank(new) <= 6
          \/ new = "failed" /\ old \notin Terminal
          \/ new = "expired" /\ old \in {"completed", "failed"}]_vars

\* C9: every step that brings a record into phase failed leaves its progress
\* at 0.
C9_FailedResetsProgress ==
  [][\A j \in JobIds :
       ( /\ TrackedNext(j)
         /\ conversion_statuses'[j].status = "failed"
         /\ ~(Tracked(j) /\ conversion_statuses[j].status = "failed") )
       => conversion_statuses'[j].progress = 0]_vars

\* C10: a record becomes expired only in a poll's step (which answers with the
\* expired record and moves neither a coroutine, nor a thread, nor the sweep),
\* only from completed or failed, and only while its directory does not exist.
C10_ExpiredOnlyByPoll ==
  [][\A j \in JobIds :
       ( /\ TrackedNext(j)
         /\ conversion_statuses'[j].status = "expired"
         /\ ~(Tracked(j) /\ conversion_statuses[j].status = "expired") )
       => /\ Tracked(j)
          /\ conversion_statuses[j].status \in {"completed", "failed"}
          /\ ~dirs[j].exists
          /\ polled'[j] = [code |-> 200,
                           body |-> <<Seen(conversion_statuses'[j])>>]
          /\ UNCHANGED <<pc, thread, wake, dirs, result, resp>>]_vars
C10_Witness ==
  \E j \in JobIds :
    /\ Tracked(j)
    /\ conversion_statuses[j].status = "expired"
    /\ polled[j].code = 200
    /\ polled[j].body[1].status = "expired"

\* C11: whenever a job's task ends in failure, whatever raised, the job's
\* record is tracked at that moment with phase failed and a message.
C11_BackgroundFailureRecorded ==
  [][\A j \in JobIds :
       ( /\ result[j].outcome = "none"
         /\ result'[j].outcome \notin {"none", "return"} )
       => /\ TrackedNext(j)
          /\ conversion_statuses'[j].status = "failed"
          /\ conversion_statuses'[j].message # None]_vars

\* C12: shutdown_event cancels every task that still runs, and when it has
\* finished every job whose task it cancelled has a record in a terminal
\* phase.
C12_ShutdownSettlesJobs ==
  [][/\ (lifespan = "up" /\ lifespan' # "up") =>
          \A j \in JobIds : Running(j) => pc'[j] = "cancelled"
     /\ lifespan' = "down" =>
          \A j \in JobIds :
            result'[j].outcome = "CancelledError" =>
              /\ TrackedNext(j)
              /\ conversion_statuses'[j].status \in Terminal]_vars

\* C13: in one sweep every scratch file that is older than MAX_FILE_AGE and
\* that can be removed is deleted, and so is every job directory older than
\* MAX_FILE_AGE, whatever happens to the other entries of that sweep.
C13_SweepIsolatesFailures ==
  [][wake' # wake =>
       /\ \A s \in ScratchIds :
            ( /\ temp[s].exists
              /\ now - temp[s].ctime > MAX_FILE_AGE
              /\ temp[s].removable )
            => ~temp'[s].exists
       /\ \A j \in JobIds : Aged(dirs, j, now) => ~dirs'[j].exists]_vars

\* C14: the step that accepts a request leaves the job's record tracked with
\* phase pending and progress 0 and answers with the job's id while no step
\* of the task has run; the record stays so until the task's first step,
\* and a poll before that step answers 200 with the pending record.
C14_PendingAtAcceptance ==
  [][\A j \in JobIds :
       /\ (pc[j] = "none" /\ pc'[j] = "spawned") =>
            /\ resp' = [op |-> "start", id |-> j, code |-> 200]
            /\ j \in download_tasks'
            /\ result'[j].outcome = "none"
            /\ ~dirs'[j].exists
            /\ TrackedNext(j)
            /\ conversion_statuses'[j].status = "pending"
            /\ conversion_statuses'[j].progress = 0
       /\ pc[j] = "spawned" =>
            /\ Tracked(j)
            /\ conversion_statuses[j].status = "pending"
            /\ conversion_statuses[j].progress = 0
       /\ (pc[j] = "spawned" /\ polled'[j] # polled[j]) =>
            /\ polled'[j].code = 200
            /\ polled'[j].body[1].status = "pending"
            /\ polled'[j].body[1].progress = 0]_vars
C14_Witness ==
  \E j \in JobIds :
    /\ pc[j] = "spawned"
    /\ resp = [op |-> "start", id |-> j, code |-> 200]
    /\ polled[j].code = 200
    /\ polled[j].body[1].status = "pending"

\* the host of a URL: what stands between "://" and the next "/", in lower
\* case
SchemeEnd(url) ==
  CHOOSE i \in 1..Len(url) :
    /\ OccursAt(url, <<":","/","/">>, i)
    /\ \A k \in 1..(i - 1) : ~OccursAt(url, <<":","/","/">>, k)
Host(url) ==
  LET r == SubSeq(Lower(url), SchemeEnd(url) + 3, Len(url))
      n == CHOOSE i \in 1..Len(r) :
             r[i] = "/" /\ \A k \in 1..(i - 1) : r[k] # "/"
  IN SubSeq(r, 1, n - 1)

\* host is the site or one of its subdomains
HostIs(host, site) ==
  \/ host = site
  \/ /\ Len(host) > Len(site)
     /\ SubSeq(host, Len(host) - Len(site), Len(host)) = <<".">> \o site

\* the platform a host belongs to
HostTag(host) ==
  IF HostIs(host, F_youtube_com) \/ HostIs(host, F_youtu_be) THEN "youtube"
  ELSE IF HostIs(host, F_instagram_com) THEN "instagram"
  ELSE IF HostIs(host, F_tiktok_com) THEN "tiktok"
  ELSE IF HostIs(host, F_twitter_com) \/ HostIs(host, F_x_com) THEN "twitter"
  ELSE IF HostIs(host, F_facebook_com) \/ HostIs(host, F_fb_watch)
    THEN "facebook"
  ELSE "ValueError"

\* C15: detect_platform gives a URL the tag of the platform its host belongs
\* to, and raises for a URL whose host belongs to no supported platform.
C15_TagFollowsHost ==
  output # None => output[1] = HostTag(Host(input))

\* the height to deliver for a request of height q when the heights of S are
\* offered: q itself, else the highest one below q, else the best one
BestEffort(q, S) ==
  IF q \in S THEN q
  ELSE IF \E h \in S : h <= q
    THEN CHOOSE h \in S : h <= q /\ \A k \in S : k <= q => k <= h
  ELSE CHOOSE h \in S : \A k \in S : k <= h

\* C16: a strategy selects the requested height when it is offered, else the
\* highest offered height below it, else the best offered height, in whatever
\* order the versions are listed.
C16_QualitySelection ==
  output # None =>
    output[1].height =
      BestEffort(input.quality,
                 {input.versions[i] : i \in 1..Len(input.versions)})

\* the file a conversion to audio starts from
OriginalAsset(j) == IF pc[j] = "yt_ff_wait" THEN fname[j][1] ELSE IgFile

\* C17: when the conversion to audio ends, the job is completed; when it
\* left no audio file, the job's file is the original one and the format of
\* the task's result is the original's container type.
C17_AudioFallbackDowngrades ==
  [][\A j \in JobIds :
       (pc[j] \in {"yt_ff_wait", "ig1_ff_wait"} /\ pc'[j] = "done") =>
         /\ result'[j].outcome = "return"
         /\ TrackedNext(j)
         /\ conversion_statuses'[j].status = "completed"
         /\ LET f == conversion_statuses'[j].filename[1] IN
              ~EndsWithMp3(f) =>
                /\ f = OriginalAsset(j)
                /\ result'[j].format = f.ext]_vars

\* C18: DELETE for a job that has a record or a directory answers 200 and
\* leaves neither; it answers 404 only for a job that has neither (stated
\* for the requests that arrive after the job's task has started).
C18_DeleteKnownJob ==
  [][\A j \in JobIds :
       ( /\ resp' # resp /\ resp'.op = "delete" /\ resp'.id = j
         /\ pc[j] # "spawned" ) =>
         IF Tracked(j) \/ dirs[j].exists
         THEN /\ resp'.code = 200
              /\ ~TrackedNext(j)
              /\ ~dirs'[j].exists
         ELSE resp'.code = 404]_vars

C20_SingleWriter ==
  [][\A j \in JobIds :
       /\ StrategyAt(pc[j]) # 0 =>
            /\ StrategyAt(pc[j]) = method[j]
            /\ req[j].platform = "instagram"
       /\ thread[j] = "running" =>
            \/ pc[j] = "yt_dl_wait" /\ req[j].platform = "youtube"
            \/ pc[j] = "ig2_dl_wait" /\ method[j] = 2
            \/ lifespan # "up" /\ pc[j] \in {"cancelled", "done"}
       /\ ( /\ Tracked(j) /\ TrackedNext(j)
            /\ conversion_statuses[j].status # "expired"
            /\ conversion_statuses'[j].status = "expired" )
          => /\ pc[j] = "done"
             /\ thread[j] # "running"
             /\ polled'[j].code = 200
             /\ polled'[j].body[1].status = "expired"]_vars
C20_Witness ==
  \E j \in JobIds :
    /\ Tracked(j)
    /\ conversion_statuses[j].status = "expired"
    /\ pc[j] = "done"
    /\ method[j] = Len(Methods)
    /\ Len(errlog[j]) = Len(Methods) - 1
    /\ result[j].outcome = "return"
    /\ polled[j].code = 200
    /\ polled[j].body[1].status = "expired"

\* C21: a sweep changes no field of a record: every record tracked after a
\* sweep was tracked before it with the same fields, and a record the sweep
\* removes is that of a directory the sweep removes.
C21_SweepOnlyRemoves ==
  [][wake' # wake =>
       \A j \in JobIds :
         /\ TrackedNext(j) =>
              Tracked(j) /\ conversion_statuses'[j] = conversion_statuses[j]
         /\ (Tracked(j) /\ ~TrackedNext(j)) =>
              dirs[j].exists /\ ~dirs'[j].exists]_vars
C21_Witness ==
  \E j \in JobIds :
    /\ wake = now + CLEANUP_INTERVAL
    /\ dirs[j].exists
    /\ dirs[j].ctime < now
    /\ Tracked(j)
    /\ conversion_statuses[j].status = "completed"

\* C22: a tracked record whose phase is neither completed nor expired has
\* neither a download URL nor a file name, and a record is expired with a
\* download URL only after it was completed.
C22_UrlOnlyWhenCompleted ==
  \A j \in JobIds :
    Tracked(j) =>
      /\ conversion_statuses[j].status \notin {"completed", "expired"} =>
           /\ conversion_statuses[j].download_url = None
           /\ conversion_statuses[j].filename = None
      /\ ( /\ conversion_statuses[j].status = "expired"
           /\ conversion_statuses[j].download_url # None )
         => result[j].outcome = "return"

\* C23: the progress of every tracked record, and of every record a poll
\* answered with, is an integer from 0 to 100, whatever byte counts a
\* progress hook or the chunk loop sees (among them counts above the
\* announced size).
C23_ProgressInRange ==
  \A j \in JobIds :
    /\ Tracked(j) => conversion_statuses[j].progress \in 0..100
    /\ polled[j].code = 200 => polled[j].body[1].progress \in 0..100
C23_Witness ==
  \E j \in JobIds :
    /\ pc[j] = "ig1_chunks"
    /\ total[j] > 0
    /\ bytes[j] > total[j]
    /\ Tracked(j)
    /\ conversion_statuses[j].progress = 70
    /\ polled[j].code = 200
    /\ polled[j].body[1].progress = 70

\* a strategy of job j is transferring bytes: yt-dlp runs in its worker
\* thread for a waiting strategy, or the chunk loop of instagrapi runs
Transferring(j) ==
  \/ thread[j] = "running" /\ pc[j] \in {"yt_dl_wait", "ig2_dl_wait"}
  \/ pc[j] = "ig1_chunks"

\* C24: while a strategy transfers bytes the progress of the job's record is
\* from 20 to 80, and a record whose phase is finalizing or converting has a
\* progress of at least 80.
C24_ThreeBands ==
  \A j \in JobIds :
    Tracked(j) =>
      /\ Transferring(j) => conversion_statuses[j].progress \in 20..80
      /\ conversion_statuses[j].status \in {"finalizing", "converting"} =>
           conversion_statuses[j].progress >= 80

\* the phases of a job that has not ended
NonTerminal ==
  {"pending", "initializing", "fetching_info", "downloading", "finalizing",
   "converting"}

\* C25: every answer of GET /api/health reports as active the number of
\* tracked records whose phase is not terminal, and as total the number of
\* tracked records.
C25_HealthCounts ==
  [][(health = None /\ health' # None) =>
       /\ health'[1].active_downloads =
            Cardinality({k \in DOMAIN conversion_statuses :
                           conversion_statuses[k].status \in NonTerminal})
       /\ health'[1].total_conversions =
            Cardinality(DOMAIN conversion_statuses)]_vars

\* the jobs whose task was created and has not ended
Unfinished == {j \in JobIds : pc[j] \notin {"none", "rejected", "done"}}

\* C26: a job is in the registry from the step that creates its task on, its
\* entry is removed only after the task has ended and is never put back, the
\* end of a task leads to the removal of its entry, and so the registry is
\* again and again exactly the set of jobs whose task has not ended.
C26_RegistryFollowsTasks ==
  /\ [](Unfinished \subseteq download_tasks)
  /\ [][\A j \in JobIds :
          /\ (j \in download_tasks /\ j \notin download_tasks') =>
               pc[j] = "done"
          /\ (j \notin download_tasks /\ j \in download_tasks') =>
               pc[j] = "none" /\ pc'[j] = "spawned"]_vars
  /\ \A j \in JobIds : (pc[j] = "done") ~> (j \notin download_tasks)
  /\ []<>(download_tasks = Unfinished)
C26_Witness ==
  \E j \in JobIds :
    /\ pc[j] = "done"
    /\ result[j].outcome = "CancelledError"
    /\ j \notin download_tasks
    /\ lifespan = "gathering"

\* C27: a request that POST /api/download answers with an error leaves the
\* tracker and the registry as they were.
C27_RejectionLeavesNothing ==
  [][(resp'.op = "start" /\ resp'.code # 200 /\ (resp' # resp \/ pc' # pc)) =>
       /\ conversion_statuses' = conversion_statuses
       /\ download_tasks' = download_tasks]_vars

\* C28: a sweep removes neither the directory nor the record of a job whose
\* task has not ended and whose record is in a phase that is not terminal.
C28_SweepSparesRunningJobs ==
  [][wake' # wake =>
       \A j \in JobIds :
         ( /\ j \in Unfinished
           /\ Tracked(j)
           /\ conversion_statuses[j].status \in NonTerminal )
         => /\ dirs'[j].exists = dirs[j].exists
            /\ TrackedNext(j)]_vars

\* C29: once the record of a job that was accepted is gone, the job has no
\* record again, whatever its task does afterwards (every accepted job has a
\* record from its acceptance on, so an accepted job without a record is one
\* whose record a sweep or DELETE removed).
C29_RemovedStaysRemoved ==
  [][\A j \in JobIds :
       ((j \in Unfinished \/ pc[j] = "done") /\ ~Tracked(j)) =>
         ~TrackedNext(j)]_vars

\* C30: with sweeps that keep coming, the record of a job whose task has ended
\* is removed in the end, also when the job never had a directory (stated
\* for jobs that have ended before time has moved on, so that the time the
\* model covers is enough for their directory to age and for two sweeps).
C30_RecordsEventuallySwept ==
  \A j \in JobIds :
    (pc[j] = "done" /\ Tracked(j) /\ ticks = 0) ~> ~Tracked(j)

\* C31: when every external call returns or raises in the end, a job that
\* was accepted comes to a state in which its task has ended and its record
\* is completed, failed or removed.
C31_JobsSettle ==
  \A j \in JobIds :
    (pc[j] = "spawned") ~>
      ( /\ pc[j] = "done"
        /\ Tracked(j) =>
             conversion_statuses[j].status \in {"completed", "failed"} )

\* C32: a record that is expired stays expired, with progress 0 and the
\* download URL it has, through every step that keeps it tracked: a poll
\* answers with the expired record, and neither a step of a task, nor a
\* worker thread, nor a sweep, nor a served file changes it.
C32_ExpiredIsAbsorbing ==
  [][\A j \in JobIds :
       (Tracked(j) /\ conversion_statuses[j].status = "expired") =>
         /\ conversion_statuses[j].progress = 0
         /\ conversion_statuses[j].download_url # None
         /\ TrackedNext(j) =>
              /\ conversion_statuses'[j] = conversion_statuses[j]
              /\ polled'[j] # polled[j] =>
                   polled'[j] = [code |-> 200,
                                 body |-> <<Seen(conversion_statuses[j])>>]]_vars
C32_Witness ==
  \E j \in JobIds :
    /\ Tracked(j)
    /\ conversion_statuses[j].status = "expired"
    /\ polled[j].code = 200
    /\ polled[j].body[1].status = "expired"
    /\ resp = [op |-> "delete", id |-> j, code |-> 404]
    /\ wake = now + CLEANUP_INTERVAL
    /\ ticks = MaxTicks

\* C33: a tracked record in phase failed has no download URL, and a record
\* becomes expired only from phase completed.
C33_ExpiredOnlyFromCompleted ==
  [][\A j \in JobIds :
       /\ (Tracked(j) /\ conversion_statuses[j].status = "failed") =>
            conversion_statuses[j].download_url = None
       /\ ( /\ Tracked(j) /\ TrackedNext(j)
            /\ conversion_statuses[j].status # "expired"
            /\ conversion_statuses'[j].status = "expired" )
          => conversion_statuses[j].status = "completed"]_vars
====
